---- MODULE Spec2Model ----
(***************************************************************************)
(* A model of src/catalogs.py: class jge_Catalog.                          *)
(*                                                                         *)
(* The catalog object caches one paginated scan of a backend table and     *)
(* answers queries from the cache; retrieveDataset downloads a zipped      *)
(* geodatabase into the scratch directory 'temp', unpacks it, compiles its *)
(* rasters and feature classes and deletes the unpacked geodatabase.       *)
(*                                                                         *)
(* The backend table, the object store, the file system and the            *)
(* geodatabase reader (arcpy) are the environment: their answers are       *)
(* chosen nondeterministically.  Strings the code parses (storage          *)
(* locations, file names) are sequences of one-character strings.          *)
(* The backend table belongs to a remote service: other clients change it *)
(* at any time, also between two requests of one scan.                     *)
(***************************************************************************)
EXTENDS Integers, Sequences, FiniteSets, TLC

(***************************************************************************)
(* Bounds of the model.                                                    *)
(***************************************************************************)
\* the backend delivers at most MaxPage items per page
MaxPage == 2
\* the fetch is called only while the working directory is fewer than
\* MaxDepth scratch directories below the directory the process started in
MaxDepth == 2

VARIABLES
    table,          \* the backend table: the set of its items
    pc,             \* "new": no catalog object yet; "idle": between calls;
                    \* "scan": inside __queryCatalog__
    caller,         \* who called __queryCatalog__: "init" or "dumps"
    response,       \* __queryCatalog__: the local variable response
    list_dict,      \* __queryCatalog__: the local variable list_dict
    requests,       \* the ExclusiveStartKey of each request of this scan
                    \* ({} for a request without one)
    responses,      \* the responses of this scan, in order
    ds,             \* self.__ds
    Features,       \* self.__Features (a DataFrame: a sequence of rows)
    Metadata,       \* self.__Metadata
    FeaturesCount,  \* self.FeaturesCount
    cwd,            \* os.getcwd(): how many 'temp' directories below the start
    tempDirs,       \* the nested 'temp' directories that exist (by depth)
    files,          \* files and geodatabases in the scratch directories
    workspace,      \* arcpy.env.workspace: {} when None, else {the path}
    ret,            \* the outcome of the last call
    scanTable,      \* history: the table at the first request of this scan
    disturbed       \* history: the table changed while this scan was running

vars == <<table, pc, caller, response, list_dict, requests, responses,
          ds, Features, Metadata, FeaturesCount,
          cwd, tempDirs, files, workspace, ret, scanTable, disturbed>>

scanVars == <<caller, response, list_dict, requests, responses>>
cacheVars == <<ds, Features, Metadata, FeaturesCount>>
envVars == <<cwd, tempDirs, files, workspace>>
histVars == <<scanTable, disturbed>>

(***************************************************************************)
(* The data of the model.                                                  *)
(***************************************************************************)
\* "s3://b/d/x.z"
LocA == <<"s", "3", ":", "/", "/", "b", "/", "d", "/", "x", ".", "z">>
\* "s3://c/x.z"
LocB == <<"s", "3", ":", "/", "/", "c", "/", "x", ".", "z">>
\* "s3:/b": a location the pattern of __extractBucketAndKey__ does not match
LocBad == <<"s", "3", ":", "/", "b">>

Rec(n, v, t, l, f) ==
    [feature_name |-> n, s3_versionID |-> v, feature_type |-> t,
     s3_file_gdb_zip_location |-> l, fields |-> f]

\* The items the backend may hold (CatalogRecord), in the order the backend
\* scans them.  The first and the third share (feature-name, s3-versionID).
RecordOrder ==
    << Rec("f1", "v1", "Raster Dataset", LocA, <<"m1", "m2">>),
       Rec("f2", "v2", "Feature Class", LocBad, <<"m2">>),
       Rec("f1", "v1", "Feature Class", LocB, <<"m3", "m1">>) >>

Records == { RecordOrder[i] : i \in DOMAIN RecordOrder }

FeatureNames == {"f1", "f2"}
VersionIDs == {"v1", "v2"}
FeatureTypes == {"Raster Dataset", "Feature Class"}

None == "None"
NoCall == [op |-> "none"]

Min(a, b) == IF a <= b THEN a ELSE b

(***************************************************************************)
(* The backend's scan.  table.scan(ExclusiveStartKey = k) answers with the *)
(* next n items after the item of key k, n chosen by the backend.  The     *)
(* response carries LastEvaluatedKey, the key of its last item, when items *)
(* remain, and may carry it when the page ends at the last item of the     *)
(* table (the next page is then empty).  A key is the item's place in the  *)
(* scan order; start is {} or {k}.                                         *)
(***************************************************************************)
KeyOf(r) == CHOOSE i \in DOMAIN RecordOrder : RecordOrder[i] = r

\* the items of t after key k, in scan order
ItemsAfter(t, k) ==
    LET in(r) == r \in t /\ KeyOf(r) > k
    IN  SelectSeq(RecordOrder, in)

ScanResponses(start) ==
    LET k == IF start = {} THEN 0 ELSE CHOOSE x \in start : TRUE
        rest == ItemsAfter(table, k)
    IN  IF rest = <<>>
        THEN { [Items |-> <<>>] }
        ELSE UNION { LET page == SubSeq(rest, 1, n)
                         last == [Items |-> page,
                                  LastEvaluatedKey |-> KeyOf(page[n])]
                     IN  IF n < Len(rest)
                         THEN { last }
                         ELSE { [Items |-> page], last }
                   : n \in 1..Min(MaxPage, Len(rest)) }

\* 'LastEvaluatedKey' in response
HasKey(r) == "LastEvaluatedKey" \in DOMAIN r

(***************************************************************************)
(* __getCatalogFeatures__ and __getCatalogMetadata__: one row per item.    *)
(***************************************************************************)
getCatalogFeatures(l) ==
    [i \in 1..Len(l) |->
        [feature_name |-> l[i].feature_name,
         s3_versionID |-> l[i].s3_versionID,
         feature_type |-> l[i].feature_type,
         s3_file_gdb_zip_location |-> l[i].s3_file_gdb_zip_location]]

getCatalogMetadata(dataset) ==
    [i \in 1..Len(dataset) |->
        [feature_name |-> dataset[i].feature_name,
         s3_versionID |-> dataset[i].s3_versionID,
         fields |-> dataset[i].fields[1]]]

(***************************************************************************)
(* __queryCatalog__                                                        *)
(***************************************************************************)
\* lines 35-39: the first request, and list_dict = response['Items']
queryCatalogBegin(who) ==
    /\ pc' = "scan"
    /\ caller' = who
    /\ ret' = NoCall
    /\ scanTable' = table
    /\ disturbed' = FALSE
    /\ \E r \in ScanResponses({}) :
          /\ response' = r
          /\ list_dict' = r.Items
          /\ requests' = << {} >>
          /\ responses' = << r >>

\* line 45 with the page replacing the list instead of extending it
extendMut(l, items) == items

\* line 45: list_dict.extend(response['Items'])
extend(l, items) == l \o items

\* lines 41-45: one turn of the loop
queryCatalogLoop ==
    /\ pc = "scan"
    /\ HasKey(response)
    /\ \E r \in ScanResponses({response.LastEvaluatedKey}) :
          /\ response' = r
          /\ list_dict' = extend(list_dict, r.Items)
          /\ requests' = Append(requests, {response.LastEvaluatedKey})
          /\ responses' = Append(responses, r)
    /\ UNCHANGED <<table, pc, caller, ret>>
    /\ UNCHANGED histVars
    /\ UNCHANGED cacheVars
    /\ UNCHANGED envVars

\* __init__, lines 16-22, once the scan has returned l
initReturn(l) ==
    /\ ds' = l
    /\ Features' = getCatalogFeatures(l)
    /\ Metadata' = getCatalogMetadata(l)
    /\ FeaturesCount' = Len(getCatalogFeatures(l))
    /\ ret' = [op |-> "init", outcome |-> "return"]

\* dumps with the scan stored as the cached index
dumpsReturnMut(l) ==
    /\ ds' = l
    /\ Features' = getCatalogFeatures(l)
    /\ Metadata' = getCatalogMetadata(l)
    /\ FeaturesCount' = Len(getCatalogFeatures(l))
    /\ ret' = [op |-> "dumps", outcome |-> "return", value |-> l]

\* dumps, line 279, once the scan has returned l
dumpsReturn(l) ==
    /\ UNCHANGED cacheVars
    /\ ret' = [op |-> "dumps", outcome |-> "return", value |-> l]

\* line 47: the loop has ended, return list_dict to the caller
queryCatalogReturn ==
    /\ pc = "scan"
    /\ ~HasKey(response)
    /\ pc' = "idle"
    /\ IF caller = "init" THEN initReturn(list_dict) ELSE dumpsReturn(list_dict)
    /\ caller' = None
    /\ response' = [Items |-> <<>>]
    /\ list_dict' = <<>>
    /\ requests' = <<>>
    /\ responses' = <<>>
    /\ scanTable' = {}
    /\ disturbed' = FALSE
    /\ UNCHANGED table
    /\ UNCHANGED envVars

\* jge_Catalog(table): __init__ up to the first request of __queryCatalog__
Construct ==
    /\ pc = "new"
    /\ queryCatalogBegin("init")
    /\ UNCHANGED table
    /\ UNCHANGED cacheVars
    /\ UNCHANGED envVars

\* dumps(): a scan of its own
dumps ==
    /\ pc = "idle"
    /\ queryCatalogBegin("dumps")
    /\ UNCHANGED table
    /\ UNCHANGED cacheVars
    /\ UNCHANGED envVars

(***************************************************************************)
(* Another client of the backend puts or deletes an item, at any time.     *)
(***************************************************************************)
BackendPut ==
    /\ \E r \in Records \ table : table' = table \cup {r}
    /\ disturbed' = (pc = "scan")
    /\ UNCHANGED scanTable
    /\ UNCHANGED <<pc, ret>>
    /\ UNCHANGED scanVars
    /\ UNCHANGED cacheVars
    /\ UNCHANGED envVars

BackendDelete ==
    /\ \E r \in table : table' = table \ {r}
    /\ disturbed' = (pc = "scan")
    /\ UNCHANGED scanTable
    /\ UNCHANGED <<pc, ret>>
    /\ UNCHANGED scanVars
    /\ UNCHANGED cacheVars
    /\ UNCHANGED envVars

(***************************************************************************)
(* The queries over the cached index.                                      *)
(***************************************************************************)
\* a query returns x and changes nothing else
Answer(x) ==
    /\ pc = "idle"
    /\ ret' = x
    /\ UNCHANGED <<table, pc>>
    /\ UNCHANGED histVars
    /\ UNCHANGED scanVars
    /\ UNCHANGED cacheVars
    /\ UNCHANGED envVars

getFeatures ==
    Answer([op |-> "getFeatures", outcome |-> "return", value |-> Features])

\* line 100 with the condition on the feature name dropped
getMetaDataValueMut(df, featureName, versionID) ==
    LET cond2(row) == row.s3_versionID = versionID
        result == SelectSeq(df, cond2)
    IN  [i \in 1..Len(result) |-> result[i].fields]

\* lines 95-106: df.loc[cond1 & cond2, 'fields'].reset_index(drop=True).values
\* (the selection raises neither IndexError nor KeyError)
getMetaDataValue(df, featureName, versionID) ==
    LET cond12(row) == row.feature_name = featureName
                       /\ row.s3_versionID = versionID
        result == SelectSeq(df, cond12)
    IN  [i \in 1..Len(result) |-> result[i].fields]

getMetaData ==
    \E featureName \in FeatureNames, versionID \in VersionIDs :
        Answer([op |-> "getMetaData", outcome |-> "return",
                featureName |-> featureName, versionID |-> versionID,
                value |-> getMetaDataValue(Metadata, featureName, versionID)])

\* lines 122-128 and 145-151: the loop over the rows of res; db is a mapping
RECURSIVE groupRows(_, _, _)
groupRows(res, key, db) ==
    IF res = <<>> THEN db
    ELSE groupRows(Tail(res), key,
                   IF key \in DOMAIN db
                   THEN [db EXCEPT ![key] = Append(db[key], Head(res))]
                   ELSE [k \in {key} |-> << Head(res) >>])

\* lines 124-128 with every row overwriting db[versionID]
getObjectsByVersionIDValueMut(df, versionID) ==
    LET hit(row) == row.s3_versionID = versionID
        rows == SelectSeq(df, hit)
        res == [i \in 1..Len(rows) |->
                   <<rows[i].feature_name, rows[i].feature_type,
                     rows[i].s3_file_gdb_zip_location>>]
    IN  IF Len(res) = 0 THEN <<>>
        ELSE [k \in {versionID} |-> << res[Len(res)] >>]

\* lines 113-129; the empty mapping {} is the function of empty domain
getObjectsByVersionIDValue(df, versionID) ==
    LET hit(row) == row.s3_versionID = versionID
        rows == SelectSeq(df, hit)
        res == [i \in 1..Len(rows) |->
                   <<rows[i].feature_name, rows[i].feature_type,
                     rows[i].s3_file_gdb_zip_location>>]
    IN  IF Len(res) = 0 THEN <<>> ELSE groupRows(res, versionID, <<>>)

getObjectsByVersionID ==
    \E versionID \in VersionIDs :
        Answer([op |-> "getObjectsByVersionID", outcome |-> "return",
                versionID |-> versionID,
                value |-> getObjectsByVersionIDValue(Features, versionID)])

\* lines 136-152
getObjectsByFeatureTypeValue(df, featureType) ==
    LET hit(row) == row.feature_type = featureType
        rows == SelectSeq(df, hit)
        res == [i \in 1..Len(rows) |->
                   <<rows[i].feature_name, rows[i].s3_versionID,
                     rows[i].s3_file_gdb_zip_location>>]
    IN  IF Len(res) = 0 THEN <<>> ELSE groupRows(res, featureType, <<>>)

getObjectsByFeatureType ==
    \E featureType \in FeatureTypes :
        Answer([op |-> "getObjectsByFeatureType", outcome |-> "return",
                featureType |-> featureType,
                value |-> getObjectsByFeatureTypeValue(Features, featureType)])

(***************************************************************************)
(* Strings: the pattern of __extractBucketAndKey__, os.path.split and      *)
(* os.path.splitext, on sequences of characters.                           *)
(***************************************************************************)
\* the least j >= i with s[j] = c, or 0
FirstAt(s, c, i) ==
    LET js == { j \in i..Len(s) : s[j] = c }
    IN  IF js = {} THEN 0 ELSE CHOOSE j \in js : \A k \in js : j <= k

\* the greatest j with s[j] = c, or 0
LastAt(s, c) ==
    LET js == { j \in 1..Len(s) : s[j] = c }
    IN  IF js = {} THEN 0 ELSE CHOOSE j \in js : \A k \in js : k <= j

\* re.match(r's3:\/\/(.*?)\/(.*)'): "s3://", the shortest bucket up to a
\* "/", and the key.  '.' matches no newline: a newline before that "/" makes
\* the match fail, and the key ends before the first newline after it.  ok
\* is FALSE when the pattern does not match (m is None).
extractBucketAndKey(s3_location) ==
    LET s == s3_location
        p == FirstAt(s, "/", 6)
        nl == FirstAt(s, "\n", 6)
        q == FirstAt(s, "\n", p + 1)
    IN  IF /\ Len(s) >= 5
           /\ SubSeq(s, 1, 5) = <<"s", "3", ":", "/", "/">>
           /\ p > 0
           /\ (nl = 0 \/ nl > p)
        THEN [ok |-> TRUE, bucket |-> SubSeq(s, 6, p - 1),
              key |-> SubSeq(s, p + 1, IF q = 0 THEN Len(s) ELSE q - 1)]
        ELSE [ok |-> FALSE]

\* os.path.split(p)[1]
basename(p) == SubSeq(p, LastAt(p, "/") + 1, Len(p))

\* os.path.splitext(name)[0]: the name up to its last dot, unless the name
\* only starts with dots up to there
splitextRoot(name) ==
    LET d == LastAt(name, ".")
    IN  IF d > 0 /\ \E k \in 1..(d - 1) : name[k] /= "."
        THEN SubSeq(name, 1, d - 1)
        ELSE name

(***************************************************************************)
(* __download_s3_zip__.  fault names the step the environment fails at:    *)
(* "none", "mkdir", "download", "open", "extract" or "remove".  c is the   *)
(* working directory, td the 'temp' directories, fs the files.             *)
(***************************************************************************)
Faults == {"none", "mkdir", "download", "open", "extract", "remove"}

Path(d, n) == [dir |-> d, name |-> n]

Raised(e, c, td, fs, mkf, dl) ==
    [outcome |-> "raise", err |-> e, value |-> {}, cwd |-> c, tempDirs |-> td,
     files |-> fs, mkdirFailed |-> mkf, downloads |-> dl]

Returned(x, c, td, fs, dl) ==
    [outcome |-> "return", err |-> None, value |-> {x}, cwd |-> c,
     tempDirs |-> td, files |-> fs, mkdirFailed |-> FALSE, downloads |-> dl]

\* The set of the outcomes the call can have under the fault: one, except
\* that an extraction that fails may have unpacked nothing or may leave the
\* partly unpacked geodatabase on disk.
download_s3_zip(df, versionID, fault, c, td, fs) ==
    LET c1(row) == row.s3_versionID = versionID
        s3_key == SelectSeq(df, c1)
    IN  \* line 171: s3_key[0][0] of no rows
        IF s3_key = <<>> THEN { Raised("IndexError", c, td, fs, FALSE, {}) }
        ELSE
        LET m == extractBucketAndKey(s3_key[1].s3_file_gdb_zip_location)
        IN  \* line 158: m is None
            IF ~m.ok THEN { Raised("TypeError", c, td, fs, FALSE, {}) }
            ELSE
            LET \* lines 173-177: the error of os.mkdir is printed
                mkdirCalled == (c + 1) \notin td
                mkdirFailed == mkdirCalled /\ fault = "mkdir"
                td1 == IF mkdirCalled /\ ~mkdirFailed THEN td \cup {c + 1} ELSE td
                temp_file == basename(m.key)
                file2download == Path(c + 1, temp_file)
                dl == { [bucket |-> m.bucket, key |-> m.key, to |-> file2download] }
                \* lines 183-185
                cur_dir == c
                file_name == Path(c + 1, temp_file)
                \* lines 191-192
                file_gdb == Path(c + 1, splitextRoot(temp_file))
            IN  \* line 182: the download into a directory that does not exist
                IF (c + 1) \notin td1
                THEN { Raised("FileNotFoundError", c, td1, fs, mkdirFailed, dl) }
                ELSE IF fault = "download"
                THEN { Raised("ClientError", c, td1, fs, mkdirFailed, dl) }
                ELSE IF fault = "open"
                THEN { Raised("BadZipFile", c + 1, td1, fs \cup {file_name},
                              mkdirFailed, dl) }
                ELSE IF fault = "extract"
                THEN { Raised("BadZipFile", c + 1, td1, fs \cup {file_name},
                              mkdirFailed, dl),
                       Raised("BadZipFile", c + 1, td1,
                              fs \cup {file_name, file_gdb}, mkdirFailed, dl) }
                ELSE IF fault = "remove"
                THEN { Raised("PermissionError", c + 1, td1,
                              fs \cup {file_name, file_gdb}, mkdirFailed, dl) }
                ELSE { Returned(file_gdb, cur_dir, td1,
                                (fs \cup {file_name, file_gdb}) \ {file_name}, dl) }

(***************************************************************************)
(* __compileDataset__.  gdb is what the reader finds in the workspace:     *)
(* whether each listing succeeds, and the objects with the outcome of      *)
(* reading each: "ok", "ExecuteError" (handled in the loop) or             *)
(* "RuntimeError" (any other exception).                                   *)
(***************************************************************************)
Ras(n, s) == [name |-> n, status |-> s, shape |-> "10x10", fields |-> <<>>]
Vec(n, s) == [name |-> n, status |-> s, shape |-> "5", fields |-> <<"a", "b", "c">>]
Gdb(lr, rs, lv, vs) ==
    [listRasters |-> lr, rasters |-> rs, listVectors |-> lv, vectors |-> vs]

GdbContents ==
    { Gdb("ok", <<>>, "ok", <<>>),
      Gdb("ok", <<Ras("R1", "ok")>>, "ok", <<Vec("V1", "ok")>>),
      Gdb("ok", <<Ras("R1", "ExecuteError")>>, "ok", <<Vec("V1", "ok")>>),
      Gdb("ok", <<Ras("R1", "ExecuteError"), Ras("R2", "ok")>>,
          "ok", <<Vec("V1", "ExecuteError"), Vec("V2", "ok")>>),
      Gdb("ok", <<Ras("N", "ok")>>, "ok", <<Vec("N", "ok")>>),
      Gdb("raise", <<>>, "ok", <<>>),
      Gdb("ok", <<Ras("R1", "ok")>>, "raise", <<>>),
      Gdb("ok", <<Ras("R1", "RuntimeError"), Ras("R2", "ok")>>,
          "ok", <<Vec("V1", "ok")>>),
      Gdb("ok", <<Ras("R1", "ok")>>, "ok", <<Vec("V1", "RuntimeError")>>) }

\* lines 206-212 and 226-232: the entry of one object; the array read from
\* the object is stood for by the object's name
Layer(obj, versionID, kind) ==
    [s3_versionID |-> versionID, feature_type |-> kind, shape |-> obj.shape,
     columns |-> obj.fields, data |-> << obj.name >>]

\* lines 202-214 and 218-234: the loop over the listed objects; d is
\* dataset[0].  The result is d, or ok = FALSE when an exception other than
\* arcpy.ExecuteError leaves the loop.
RECURSIVE compileObjects(_, _, _, _)
compileObjects(objs, versionID, kind, d) ==
    IF objs = <<>> THEN [ok |-> TRUE, d |-> d]
    ELSE LET o == Head(objs)
         IN  IF o.status = "ok"
             THEN compileObjects(Tail(objs), versionID, kind,
                                 IF o.name \notin DOMAIN d
                                 THEN (o.name :> Layer(o, versionID, kind)) @@ d
                                 ELSE d)
             ELSE IF o.status = "ExecuteError"
             THEN compileObjects(Tail(objs), versionID, kind, d)
             ELSE [ok |-> FALSE, d |-> d]

compileDataset(abs_path_file_gdb, versionID, gdb) ==
    LET failed(e) == [outcome |-> "raise", err |-> e, value |-> <<>>,
                      workspace |-> {abs_path_file_gdb}]
    IN  IF gdb.listRasters /= "ok" THEN failed("ListRasters")
        ELSE
        LET r == compileObjects(gdb.rasters, versionID, "Raster Dataset", <<>>)
        IN  IF ~r.ok THEN failed("RuntimeError")
            ELSE IF gdb.listVectors /= "ok" THEN failed("ListFeatureClasses")
            ELSE
            LET f == compileObjects(gdb.vectors, versionID, "Feature Class", r.d)
            IN  IF ~f.ok THEN failed("RuntimeError")
                ELSE \* lines 235-236
                     [outcome |-> "return", err |-> None, value |-> << f.d >>,
                      workspace |-> {}]

(***************************************************************************)
(* The calls of the fetch, the compilation and retrieveDataset.            *)
(***************************************************************************)
\* __download_s3_zip__(versionID)
CallDownload ==
    /\ pc = "idle"
    /\ cwd < MaxDepth
    /\ \E versionID \in VersionIDs, fault \in Faults :
          \E f \in download_s3_zip(Features, versionID, fault, cwd, tempDirs, files) :
              /\ cwd' = f.cwd
              /\ tempDirs' = f.tempDirs
              /\ files' = f.files
              /\ ret' = [op |-> "download_s3_zip", versionID |-> versionID,
                         outcome |-> f.outcome, err |-> f.err, value |-> f.value,
                         cwd0 |-> cwd, mkdirFailed |-> f.mkdirFailed,
                         downloads |-> f.downloads]
    /\ UNCHANGED <<table, pc, workspace>>
    /\ UNCHANGED histVars
    /\ UNCHANGED scanVars
    /\ UNCHANGED cacheVars

\* __compileDataset__(abs_path_file_gdb, versionID) of an unpacked geodatabase
CallCompile ==
    /\ pc = "idle"
    /\ \E p \in { f \in files : splitextRoot(f.name) = f.name },
          versionID \in VersionIDs, gdb \in GdbContents :
          LET c == compileDataset(p, versionID, gdb)
          IN  /\ workspace' = c.workspace
              /\ ret' = [op |-> "compileDataset", versionID |-> versionID,
                         gdb |-> gdb, outcome |-> c.outcome, err |-> c.err,
                         value |-> c.value]
    /\ UNCHANGED <<table, pc, cwd, tempDirs, files>>
    /\ UNCHANGED histVars
    /\ UNCHANGED scanVars
    /\ UNCHANGED cacheVars

\* retrieveDataset(versionID), lines 265-271; fetched is the geodatabase the
\* fetch returned, if it returned
retrieveDataset ==
    /\ pc = "idle"
    /\ cwd < MaxDepth
    /\ \E versionID \in VersionIDs, fault \in Faults :
          \E f \in download_s3_zip(Features, versionID, fault, cwd, tempDirs, files) :
              /\ cwd' = f.cwd
              /\ tempDirs' = f.tempDirs
              /\ IF f.outcome = "raise"
                 THEN /\ files' = f.files
                      /\ workspace' = workspace
                      /\ ret' = [op |-> "retrieveDataset", versionID |-> versionID,
                                 outcome |-> "raise", err |-> f.err,
                                 value |-> <<>>, fetched |-> {}]
                 ELSE \E gdb \in GdbContents :
                      LET file_gdb == CHOOSE x \in f.value : TRUE
                          c == compileDataset(file_gdb, versionID, gdb)
                      IN  /\ workspace' = c.workspace
                          \* line 269: arcpy.management.Delete(file_gdb)
                          /\ files' = IF c.outcome = "raise"
                                      THEN f.files
                                      ELSE f.files \ {file_gdb}
                          /\ ret' = [op |-> "retrieveDataset",
                                     versionID |-> versionID,
                                     outcome |-> c.outcome, err |-> c.err,
                                     value |-> c.value, fetched |-> f.value]
    /\ UNCHANGED <<table, pc>>
    /\ UNCHANGED histVars
    /\ UNCHANGED scanVars
    /\ UNCHANGED cacheVars

(***************************************************************************)
(* The specifications.                                                     *)
(*   Spec: the life of a catalog object over a changing backend.           *)
(*   SpecFetch: the fetch, the compilation and retrieveDataset of a        *)
(*   catalog object constructed over any backend table.                    *)
(***************************************************************************)
Init ==
    /\ table = {}
    /\ pc = "new"
    /\ caller = None
    /\ response = [Items |-> <<>>]
    /\ list_dict = <<>>
    /\ requests = <<>>
    /\ responses = <<>>
    /\ ds = <<>>
    /\ Features = <<>>
    /\ Metadata = <<>>
    /\ FeaturesCount = 0
    /\ cwd = 0
    /\ tempDirs \in {{}, {1}}
    /\ files = {}
    /\ workspace = {}
    /\ ret = NoCall
    /\ scanTable = {}
    /\ disturbed = FALSE

Next ==
    \/ BackendPut
    \/ BackendDelete
    \/ Construct
    \/ queryCatalogLoop
    \/ queryCatalogReturn
    \/ dumps
    \/ getFeatures
    \/ getMetaData
    \/ getObjectsByVersionID
    \/ getObjectsByFeatureType
    \/ retrieveDataset

Spec == Init /\ [][Next]_vars

InitFetch ==
    /\ table \in SUBSET Records
    /\ pc = "idle"
    /\ caller = None
    /\ response = [Items |-> <<>>]
    /\ list_dict = <<>>
    /\ requests = <<>>
    /\ responses = <<>>
    /\ ds = ItemsAfter(table, 0)
    /\ Features = getCatalogFeatures(ItemsAfter(table, 0))
    /\ Metadata = getCatalogMetadata(ItemsAfter(table, 0))
    /\ FeaturesCount = Len(ItemsAfter(table, 0))
    /\ cwd = 0
    /\ tempDirs \in {{}, {1}}
    /\ files = {}
    /\ workspace = {}
    /\ ret = [op |-> "init", outcome |-> "return"]
    /\ scanTable = {}
    /\ disturbed = FALSE

NextFetch ==
    \/ CallDownload
    \/ CallCompile
    \/ retrieveDataset

SpecFetch == InitFetch /\ [][NextFetch]_vars

(***************************************************************************)
(* Properties.                                                             *)
(***************************************************************************)
RECURSIVE ConcatItems(_)
ConcatItems(rs) == IF rs = <<>> THEN <<>> ELSE Head(rs).Items \o ConcatItems(Tail(rs))

\* C1, in every state of a scan: the requests and responses pair up, the
\* first request carries no key and each later one the LastEvaluatedKey of
\* the response before it, list_dict is the concatenation of the pages
\* delivered so far in page order, the scan can always take its next step and
\* makes at most one request per item plus one; and when the last response
\* carries no key and the table did not change during the scan, the list
\* holds every item of the table exactly once.
C1_Scanning ==
    pc = "scan" =>
        /\ Len(requests) = Len(responses)
        /\ Len(responses) >= 1
        /\ response = responses[Len(responses)]
        /\ requests[1] = {}
        /\ \A i \in 2..Len(requests) :
              /\ HasKey(responses[i - 1])
              /\ requests[i] = {responses[i - 1].LastEvaluatedKey}
        /\ list_dict = ConcatItems(responses)
        /\ (ENABLED queryCatalogLoop) \/ (ENABLED queryCatalogReturn)
        /\ Len(requests) <= Cardinality(Records) + 1
        /\ (~HasKey(response) /\ ~disturbed) => list_dict = ItemsAfter(table, 0)

\* C1, the step that returns from __queryCatalog__: the caller receives the
\* concatenation of the pages of the scan.
C1_Returning ==
    (pc = "scan" /\ pc' = "idle") =>
        /\ caller = "init" => ds' = ConcatItems(responses)
        /\ caller = "dumps" => ret'.value = ConcatItems(responses)

\* C1: a scan delivered as N >= 1 pages terminates and returns the
\* concatenation of the items of pages 1..N in page order, each item once,
\* every follow-up request carrying the key of the response before it.
C1_ScanAll == []C1_Scanning /\ [][C1_Returning]_vars

\* C1's case: a scan of three pages has received its last page.
C1_Witness ==
    /\ pc = "scan"
    /\ ~HasKey(response)
    /\ Len(responses) = 3
    /\ Len(list_dict) = 3

QueryOps ==
    {"getFeatures", "getMetaData", "getObjectsByVersionID",
     "getObjectsByFeatureType"}

\* what a query call answers when it reads the index built from scan l
AnswerFrom(l, call) ==
    CASE call.op = "getFeatures" -> getCatalogFeatures(l)
      [] call.op = "getMetaData" ->
            getMetaDataValue(getCatalogMetadata(l), call.featureName, call.versionID)
      [] call.op = "getObjectsByVersionID" ->
            getObjectsByVersionIDValue(getCatalogFeatures(l), call.versionID)
      [] call.op = "getObjectsByFeatureType" ->
            getObjectsByFeatureTypeValue(getCatalogFeatures(l), call.featureType)

\* C7 without its sentence on what dumps returns, one step: once the object
\* is constructed no step changes the cached index; a query or
\* retrieveDataset issues no scan request, and a query answers from the scan
\* made at construction (ds).
C7_Frame ==
    /\ (pc = "idle" \/ (pc = "scan" /\ caller = "dumps")) => UNCHANGED cacheVars
    /\ (pc = "idle" /\ ret' /= ret /\ ret'.op \in QueryOps \cup {"retrieveDataset"}) =>
          /\ pc' = "idle"
          /\ UNCHANGED scanVars
    /\ (pc = "idle" /\ ret' /= ret /\ ret'.op \in QueryOps) =>
          ret'.value = AnswerFrom(ds, ret')

\* C7 as stated: the cached index is fixed at construction: whatever the
\* backend mutations and the calls, the queries answer from the
\* construction-time scan without scanning, and dumps returns the backend's
\* contents at the time of the dumps call and leaves the cached index
\* unchanged.
C7_DumpsAtCallTime ==
    [][ /\ C7_Frame
        /\ (pc = "scan" /\ caller = "dumps" /\ pc' = "idle") =>
              /\ ret'.op = "dumps"
              /\ ret'.value = ItemsAfter(scanTable, 0) ]_vars

\* C7 as amended: the cached index is fixed at construction: whatever the
\* backend mutations and the calls, the queries answer from the
\* construction-time scan without scanning, and dumps returns the pages of a
\* scan of its own made during the call (the backend's contents when the
\* backend does not change while that scan runs) and leaves the cached index
\* unchanged.
C7_CacheFixed ==
    [][ /\ C7_Frame
        /\ (pc = "scan" /\ caller = "dumps" /\ pc' = "idle") =>
              /\ ret'.op = "dumps"
              /\ ret'.value = ConcatItems(responses)
              /\ ~disturbed =>
                    /\ table = scanTable
                    /\ ret'.value = ItemsAfter(table, 0) ]_vars

\* C7's case: after a backend mutation dumps has returned the backend's
\* contents, which differ from the cached scan.
C7_Witness ==
    /\ pc = "idle"
    /\ ret.op = "dumps"
    /\ ret.value = ItemsAfter(table, 0)
    /\ ret.value /= ds
    /\ ds /= <<>>
    /\ Features = getCatalogFeatures(ds)

\* the rows of the Feature Index with version v
RowsOfVersion(v) == { i \in 1..Len(Features) : Features[i].s3_versionID = v }

\* C8: getObjectsByVersionID(v) returns the empty mapping when no Feature
\* Index row has version v, and otherwise a mapping whose only key is v and
\* whose sequence holds one (feature-name, feature-type, location) entry per
\* matching row, in row order, as many as there are rows of version v.
C8_ObjectsByVersion ==
    ret.op = "getObjectsByVersionID" =>
        LET v == ret.versionID
            hit(row) == row.s3_versionID = v
            rows == SelectSeq(Features, hit)
        IN  /\ ret.outcome = "return"
            /\ RowsOfVersion(v) = {} => DOMAIN ret.value = {}
            /\ RowsOfVersion(v) /= {} =>
                  /\ DOMAIN ret.value = {v}
                  /\ Len(ret.value[v]) = Cardinality(RowsOfVersion(v))
                  /\ \A i \in 1..Len(rows) :
                        ret.value[v][i] =
                            <<rows[i].feature_name, rows[i].feature_type,
                              rows[i].s3_file_gdb_zip_location>>

\* C8's case: two of three rows have the queried version.
C8_Witness ==
    /\ ret.op = "getObjectsByVersionID"
    /\ Len(Features) = 3
    /\ Cardinality(RowsOfVersion(ret.versionID)) = 2
    /\ Len(ret.value[ret.versionID]) = 2

\* the records of the cached scan are unique by (feature-name, s3-versionID)
UniqueKeys(l) ==
    \A i, j \in 1..Len(l) :
        (l[i].feature_name = l[j].feature_name
         /\ l[i].s3_versionID = l[j].s3_versionID) => i = j

\* C9: over a catalog whose records are unique by (feature-name,
\* s3-versionID), getMetaData(name, version) returns without raising: the
\* empty result when no record has the pair, and otherwise the one-entry
\* result holding the first element of the matching record's fields.
C9_MetaData ==
    (ret.op = "getMetaData" /\ UniqueKeys(ds)) =>
        LET match == { i \in 1..Len(ds) :
                          /\ ds[i].feature_name = ret.featureName
                          /\ ds[i].s3_versionID = ret.versionID }
        IN  /\ ret.outcome = "return"
            /\ match = {} => ret.value = <<>>
            /\ \A i \in match : ret.value = << Head(ds[i].fields) >>

\* C9's case: a catalog of two records with unique keys, the queried one
\* with two elements in fields.
C9_Witness ==
    /\ ret.op = "getMetaData"
    /\ UniqueKeys(ds)
    /\ Len(ds) = 2
    /\ \E i \in 1..Len(ds) :
          /\ ds[i].feature_name = ret.featureName
          /\ ds[i].s3_versionID = ret.versionID
          /\ Len(ds[i].fields) = 2
          /\ ret.value = << ds[i].fields[1] >>

\* both listings of gdb succeed; each listed object is then readable
\* (status "ok") or unreadable (its read raises, whatever the exception)
ListingsSucceed(gdb) ==
    /\ gdb.listRasters = "ok"
    /\ gdb.listVectors = "ok"

ReadableNames(objs) == { objs[i].name : i \in { j \in 1..Len(objs) : objs[j].status = "ok" } }

\* C5: over a geodatabase whose objects are each readable or unreadable, the
\* compilation returns without raising and the keys of the compiled mapping
\* are the names of the readable objects, each tagged with the versionID
\* given and its kind (a name that is a readable raster is a Raster
\* Dataset): a read failure on one object skips that object only.
C5_CompileSkipsUnreadable ==
    (ret.op = "compileDataset" /\ ListingsSucceed(ret.gdb)) =>
        /\ ret.outcome = "return"
        /\ Len(ret.value) = 1
        /\ DOMAIN ret.value[1] =
              ReadableNames(ret.gdb.rasters) \cup ReadableNames(ret.gdb.vectors)
        /\ \A n \in DOMAIN ret.value[1] :
              /\ ret.value[1][n].s3_versionID = ret.versionID
              /\ ret.value[1][n].feature_type =
                    IF n \in ReadableNames(ret.gdb.rasters)
                    THEN "Raster Dataset" ELSE "Feature Class"

\* C2: when retrieveDataset has returned or raised after the fetch produced
\* the unpacked geodatabase, that geodatabase is no longer in the workspace.
C2_CleanupOnEveryExit ==
    (ret.op = "retrieveDataset" /\ ret.fetched /= {}) => ret.fetched \cap files = {}

\* C3: when the compilation has completed, by returning or by raising, the
\* reader's active workspace is unset.
C3_WorkspaceUnset ==
    ret.op = "compileDataset" => workspace = {}

\* C4: the fetch of a versionID that has no row in the Feature Index raises
\* an explicit version-not-found error, before any side effect.
C4_VersionNotFound ==
    (ret.op = "download_s3_zip" /\ RowsOfVersion(ret.versionID) = {}) =>
        /\ ret.outcome = "raise"
        /\ ret.err = "VersionNotFound"
        /\ ret.downloads = {}
        /\ cwd = ret.cwd0

\* C6: when creating the scratch directory fails, the fetch raises the
\* creation error and attempts no download and no change of directory.
C6_MkdirErrorSurfaced ==
    (ret.op = "download_s3_zip" /\ ret.mkdirFailed) =>
        /\ ret.outcome = "raise"
        /\ ret.err = "OSError"
        /\ ret.downloads = {}
        /\ cwd = ret.cwd0

\* C10: on every exit of the fetch, by return or by raise, the working
\* directory is the one at entry.
C10_CwdRestored ==
    ret.op = "download_s3_zip" => cwd = ret.cwd0

====
